---- MODULE Spec2Model ----
(***************************************************************************)
(* ProTeX (Python version), src/protex.py: the per-line recognition state  *)
(* machine of process_file and the driver loop of main.                    *)
(*                                                                         *)
(* Text is modelled at the level of lexemes: a string is a sequence of     *)
(* lexemes, a lexeme being a run of whitespace (" " one blank, "  " a      *)
(* wider run) or an indivisible piece of a word ("!", "BOP", "USES", ":"). *)
(* A line of input is such a sequence without its newline; a printed line  *)
(* is such a sequence too, <<>> being the empty line.                      *)
(***************************************************************************)
EXTENDS Integers, Sequences, FiniteSets, TLC

VARIABLES
    opts,    \* the command-line switches (main, parser)
    lang,    \* the language selected (main, lang)
    state,   \* the document state (main, state)
    pc,      \* where main stands: "main", "idle", "reading", "done"
    nfile,   \* how many of the files have been opened
    act,     \* the step taken last: "init", "preamble", "open", "line", "eof", "finish"
    line,    \* the line read by the last step, when act = "line"
    out,     \* the lines the last step printed
    cnt,     \* how often the run has printed each structural line so far
    lastv,   \* the verbatim command printed last: "none", "bv", "ev"
    hist     \* what the input of the run has held so far

vars == <<opts, lang, state, pc, nfile, act, line, out, cnt, lastv, hist>>

(***************************************************************************)
(* Bounds of the model.                                                    *)
(***************************************************************************)
MaxFiles == 2

MaxCount == 2

(***************************************************************************)
(* String primitives of Python used by process_file.                       *)
(***************************************************************************)
IsSpace(x) == x \in {" ", "  "}

RECURSIVE lstrip(_)
lstrip(s) == IF s # <<>> /\ IsSpace(Head(s)) THEN lstrip(Tail(s)) ELSE s

RECURSIVE splitAcc(_, _, _)
splitAcc(s, cur, acc) ==
    IF s = <<>>
    THEN IF cur = <<>> THEN acc ELSE Append(acc, cur)
    ELSE IF IsSpace(Head(s))
         THEN splitAcc(Tail(s), <<>>, IF cur = <<>> THEN acc ELSE Append(acc, cur))
         ELSE splitAcc(Tail(s), Append(cur, Head(s)), acc)

split(s) == splitAcc(s, <<>>, <<>>)

RECURSIVE join(_)
join(fs) ==
    IF fs = <<>> THEN <<>>
    ELSE IF Len(fs) = 1 THEN fs[1]
    ELSE fs[1] \o <<" ">> \o join(Tail(fs))

contains(s, k) ==
    \E i \in 1..(Len(s) - Len(k) + 1) : SubSeq(s, i, i + Len(k) - 1) = k

startswith(s, k) == Len(s) >= Len(k) /\ SubSeq(s, 1, Len(k)) = k

escape_underscores(s) == [i \in 1..Len(s) |-> IF s[i] = "_" THEN "\\_" ELSE s[i]]

\* fields[k:] of Python, k counted from 0
from(fs, k) == SubSeq(fs, k + 1, Len(fs))

(***************************************************************************)
(* Token table (main, language_tokens) and the optional keyword list.      *)
(***************************************************************************)
comment_of(l) ==
    CASE l = "F" -> "!" [] l = "A" -> "--" [] l = "C" -> "//" [] l = "S" -> "#"

language_tokens(l) ==
    [comment |-> <<comment_of(l)>>,
     bop  |-> <<comment_of(l), "BOP">>,  eop  |-> <<comment_of(l), "EOP">>,
     boi  |-> <<comment_of(l), "BOI">>,  eoi  |-> <<comment_of(l), "EOI">>,
     bopi |-> <<comment_of(l), "BOPI">>, eopi |-> <<comment_of(l), "EOPI">>,
     boc  |-> <<comment_of(l), "BOC">>,  eoc  |-> <<comment_of(l), "EOC">>,
     boe  |-> <<comment_of(l), "BOE">>,  eoe  |-> <<comment_of(l), "EOE">>]

TokensF == language_tokens("F")

TokensA == language_tokens("A")

TokensC == language_tokens("C")

TokensS == language_tokens("S")

\* tokens = language_tokens[lang]
tokens == CASE lang = "F" -> TokensF [] lang = "A" -> TokensA
            [] lang = "C" -> TokensC [] lang = "S" -> TokensS

Key(w) == <<"!", w, ":">>

Key2(w, v) == <<"!", w, " ", v, ":">>

default_keys ==
    << Key("INTERFACE"), Key("USES"), Key2("PUBLIC", "TYPES"), Key2("PRIVATE", "TYPES"),
       <<"!", "PUBLIC", " ", "MEMBER", " ", "FUNCTIONS", ":">>,
       <<"!", "PRIVATE", " ", "MEMBER", " ", "FUNCTIONS", ":">>,
       <<"!", "PUBLIC", " ", "DATA", " ", "MEMBERS", ":">>,
       Key("PARAMETERS"), Key("ARGUMENTS"),
       Key2("DEFINED", "PARAMETERS"), Key2("INPUT", "PARAMETERS"),
       <<"!", "INPUT", "/", "OUTPUT", " ", "PARAMETERS", ":">>,
       Key2("OUTPUT", "PARAMETERS"), Key2("RETURN", "VALUE"), Key2("REVISION", "HISTORY"),
       Key("BUGS"), Key2("SEE", "ALSO"), Key2("SYSTEM", "ROUTINES"), Key2("FILES", "USED"),
       Key("REMARKS"), Key2("TO", "DO"), Key2("CALLING", "SEQUENCE"), Key("AUTHOR"),
       Key2("CALLED", "FROM"), Key2("LOCAL", "VARIABLES") >>

argument_words == {"USES", "INPUT", "OUTPUT", "PARAMETERS", "VALUE", "ARGUMENTS"}

(***************************************************************************)
(* Fixed output lines.                                                     *)
(***************************************************************************)
Blank == <<>>

Separator == <<" %/////////////////////////////////////////////////////////////">>

IntroRule == <<" %..............................................">>

EofRule == <<"%...............................................................">>

BeginVerbatim == <<"\\begin{verbatim}">>

EndVerbatim == <<"\\end{verbatim}">>

BeginDocument == <<"\\begin{document}">>

EndDocument == <<"\\end{document}">>

NewPage == <<"\\newpage">>

HRule == <<"\\mbox{}\\hrulefill\\">>

Banner == <<"\\section{Routine/Function Prologues} \\label{app:ProLogues}">>

BigSkip == <<"\\bigskip">>

DescLabel == <<"{\\sf DESCRIPTION:\\\\ }">>

(***************************************************************************)
(* Document state (main, the state dict) and its helpers.                  *)
(***************************************************************************)
Unknown == <<"UNKNOWN">>

InitState ==
    [intro |-> FALSE, prologue |-> FALSE, first |-> TRUE, source |-> FALSE,
     verb |-> FALSE, tpage |-> FALSE, begdoc |-> FALSE, not_first |-> FALSE,
     have_name |-> FALSE, have_desc |-> FALSE, have_intf |-> FALSE,
     have_hist |-> FALSE, name_is |-> Unknown,
     title |-> <<>>, author |-> <<>>, affiliation |-> <<>>, doc_date |-> <<>>]

\* The result of a handler: the new state and the lines it printed.
R(st, o) == [st |-> st, out |-> o]

\* do_beg without the latch: the header is printed and begdoc stays as it was
do_beg_unlatched(st, bare) ==
    IF bare THEN R(st, <<>>)
    ELSE IF ~st.begdoc
         THEN R(st, <<BeginDocument, <<"\\tableofcontents">>, NewPage>>)
         ELSE R(st, <<>>)

do_beg(st, bare) ==
    IF bare THEN R(st, <<>>)
    ELSE IF ~st.begdoc
         THEN R([st EXCEPT !.begdoc = TRUE],
                (IF st.tpage
                 THEN << <<"\\title{">> \o st.title \o <<"}">>,
                         <<"\\author{{\\sc ">> \o st.author \o <<"}\\\\ {\\em ">>
                             \o st.affiliation \o <<"}}">>,
                         <<"\\date{">> \o st.doc_date \o <<"}">> >>
                 ELSE <<>>)
                \o <<BeginDocument>>
                \o (IF st.tpage THEN << <<"\\maketitle">> >> ELSE <<>>)
                \o << <<"\\tableofcontents">>, NewPage >>)
         ELSE R(st, <<>>)

do_eoc(st) ==
    IF st.verb
    THEN R([st EXCEPT !.verb = FALSE, !.source = FALSE], <<EndVerbatim>>)
    ELSE R([st EXCEPT !.source = FALSE], <<>>)

set_missing(st) ==
    [st EXCEPT !.have_name = FALSE, !.have_desc = FALSE, !.have_intf = FALSE,
               !.have_hist = FALSE, !.name_is = Unknown]

(***************************************************************************)
(* Headings printed by the name markers.                                   *)
(***************************************************************************)
QuoteMark == <<"!", "QUOTE", ":">>

TitleMark == <<"!", "TITLE", ":">>

AuthorsMark == <<"!", "AUTHORS", ":">>

AffiliationMark == <<"!", "AFFILIATION", ":">>

DateMark == <<"!", "DATE", ":">>

IntroductionMark == <<"!", "INTRODUCTION", ":">>

ModuleMark == <<"!", "MODULE", ":">>

RoutineMark == <<"!", "ROUTINE", ":">>

IRoutineMark == <<"!", "IROUTINE", ":">>

DescriptionMark == <<"!", "DESCRIPTION", ":">>

SourceFileInfo(fb) == <<" (Source File: ">> \o fb \o <<")}">>

ModuleHeading(name, fb) ==
    IF ~opts.f
    THEN <<"\\subsection{Fortran:  Module Interface ">> \o name \o SourceFileInfo(fb)
    ELSE <<"\\subsection{Fortran:  Module Interface ">> \o name \o <<"}">>

RoutineHeading(name, fb) ==
    IF ~opts.f
    THEN <<"\\subsubsection{">> \o name \o SourceFileInfo(fb)
    ELSE <<"\\subsubsection{">> \o name \o <<"}">>

IRoutineHeading(label, name) ==
    <<"\\subsubsection [">> \o label \o <<"]{">> \o name \o <<"}">>

(***************************************************************************)
(* The branches of the loop body of process_file, in the order of the      *)
(* source.  fields is the line split on whitespace, mi the marker index,   *)
(* ln the line with its leading whitespace stripped, fb the escaped base   *)
(* name of the file.                                                       *)
(***************************************************************************)
\* a quote branch that keeps the marker in the printed line
on_quote_with_marker(st, fields, mi) == R(st, << join(from(fields, mi)) >>)

on_quote(st, fields, mi) == R(st, << join(from(fields, mi + 1)) >>)

on_boi(st) == R([st EXCEPT !.intro = TRUE], <<>>)

\* the fields left after "if mi == 1: fields.pop(0)" and "fields.pop(0)"
popped(fields, mi) == from(fields, mi + 1)

on_title(st, fields, mi) ==
    R([st EXCEPT !.title = join(popped(fields, mi)), !.tpage = TRUE], <<>>)

on_authors(st, fields, mi) ==
    R([st EXCEPT !.author = join(popped(fields, mi)), !.tpage = TRUE], <<>>)

on_affiliation(st, fields, mi) ==
    R([st EXCEPT !.affiliation = join(popped(fields, mi)), !.tpage = TRUE], <<>>)

on_date(st, fields, mi) ==
    R([st EXCEPT !.doc_date = join(popped(fields, mi)), !.tpage = TRUE], <<>>)

on_introduction(st, fields, mi) ==
    LET b == do_beg(st, opts.bare)
    IN  R(b.st, b.out \o << IntroRule,
                            <<"\\section{">> \o join(popped(fields, mi)) \o <<"}">> >>)

on_eoi(st) == R([st EXCEPT !.intro = FALSE], <<Blank, Separator, NewPage>>)

\* a prologue-open branch that forgets to reset the completeness flags
on_bop_no_reset(st) ==
    LET a == IF st.source THEN do_eoc(st) ELSE R(st, <<>>)
        b == do_beg(a.st, opts.bare)
        c == IF ~b.st.first THEN <<Blank, HRule>>
             ELSE IF ~opts.bare THEN <<Banner>> ELSE <<>>
    IN  R([b.st EXCEPT !.first = FALSE, !.prologue = TRUE,
                       !.verb = FALSE, !.source = FALSE],
          a.out \o <<Blank, Separator>> \o b.out \o c)

\* a prologue-open branch that prints the banner every time
on_bop_banner_always(st) ==
    LET a == IF st.source THEN do_eoc(st) ELSE R(st, <<>>)
        b == do_beg(a.st, opts.bare)
        c == IF ~opts.bare THEN <<Banner>> ELSE <<>>
    IN  R(set_missing([b.st EXCEPT !.first = FALSE, !.prologue = TRUE,
                                   !.verb = FALSE, !.source = FALSE]),
          a.out \o <<Blank, Separator>> \o b.out \o c)

on_bop(st) ==
    LET a == IF st.source THEN do_eoc(st) ELSE R(st, <<>>)
        b == do_beg(a.st, opts.bare)
        c == IF ~b.st.first THEN <<Blank, HRule>>
             ELSE IF ~opts.bare THEN <<Banner>> ELSE <<>>
    IN  R(set_missing([b.st EXCEPT !.first = FALSE, !.prologue = TRUE,
                                   !.verb = FALSE, !.source = FALSE]),
          a.out \o <<Blank, Separator>> \o b.out \o c)

\* an internal-prologue-open branch that forgets to reset the completeness flags
on_bopi_no_reset(st) ==
    IF opts.internal
    THEN R([st EXCEPT !.prologue = FALSE], <<>>)
    ELSE LET a == IF st.source THEN do_eoc(st) ELSE R(st, <<>>)
             b == do_beg(a.st, opts.bare)
             c == IF ~b.st.first THEN <<Blank, HRule>>
                  ELSE IF ~opts.bare THEN <<Banner>> ELSE <<>>
         IN  R([b.st EXCEPT !.first = FALSE, !.prologue = TRUE,
                            !.verb = FALSE, !.source = FALSE],
               a.out \o <<Blank, Separator>> \o b.out \o c)

on_bopi(st) ==
    IF opts.internal
    THEN R([st EXCEPT !.prologue = FALSE], <<>>)
    ELSE LET a == IF st.source THEN do_eoc(st) ELSE R(st, <<>>)
             b == do_beg(a.st, opts.bare)
             c == IF ~b.st.first THEN <<Blank, HRule>>
                  ELSE IF ~opts.bare THEN <<Banner>> ELSE <<>>
         IN  R(set_missing([b.st EXCEPT !.first = FALSE, !.prologue = TRUE,
                                        !.verb = FALSE, !.source = FALSE]),
               a.out \o <<Blank, Separator>> \o b.out \o c)

on_module(st, fields, mi, fb) ==
    LET module_name == escape_underscores(join(popped(fields, mi)))
    IN  R([st EXCEPT !.have_name = TRUE, !.have_intf = TRUE, !.not_first = TRUE],
          (IF opts.n THEN <<NewPage>> ELSE <<>>)
          \o <<ModuleHeading(module_name, fb), Blank>>)

\* a !ROUTINE: branch that breaks the page before every routine
on_routine_break_always(st, fields, mi, fb) ==
    LET routine_name == escape_underscores(join(popped(fields, mi)))
    IN  R([st EXCEPT !.have_name = TRUE, !.not_first = TRUE],
          (IF opts.n THEN <<NewPage>> ELSE <<>>)
          \o <<RoutineHeading(routine_name, fb), Blank>>)

on_routine(st, fields, mi, fb) ==
    LET routine_name == escape_underscores(join(popped(fields, mi)))
    IN  R([st EXCEPT !.have_name = TRUE, !.not_first = TRUE],
          (IF opts.n /\ st.not_first THEN <<NewPage>> ELSE <<>>)
          \o <<RoutineHeading(routine_name, fb), Blank>>)

on_iroutine(st, fields, mi) ==
    LET routine_name == escape_underscores(join(popped(fields, mi)))
        words == split(routine_name)
        label == IF Len(words) > 1 THEN words[2] ELSE <<>>
    IN  R([st EXCEPT !.have_name = TRUE],
          <<IRoutineHeading(label, routine_name), Blank>>)

on_description(st, ln) ==
    LET a == IF st.verb
             THEN R([st EXCEPT !.verb = FALSE], <<EndVerbatim, DescLabel, Blank>>)
             ELSE R(st, <<>>)
        parts == split(ln)
        start == IF parts[1] = <<"!">> THEN 1 ELSE 0
        b == IF opts.nolatex
             THEN R([a.st EXCEPT !.verb = TRUE], <<BeginVerbatim>>)
             ELSE R(a.st, << join(from(parts, start + 1)) >>)
    IN  R([b.st EXCEPT !.have_desc = TRUE], a.out \o b.out)

\* "for key in opts.keys: if key in line: ... break": the first key found
matching_keys(ln) == {i \in 1..Len(default_keys) : contains(ln, default_keys[i])}

first_key(ln) ==
    default_keys[CHOOSE i \in matching_keys(ln) : \A j \in matching_keys(ln) : i <= j]

argument_like(ln) == \E x \in argument_words : contains(ln, <<x>>)

\* a keyword branch that prints the spacing command also after closing a listing
on_key_always_skips(st, ln) ==
    LET key == first_key(ln)
        label == Tail(key)
        a == IF st.verb THEN <<EndVerbatim, Blank, BigSkip>> ELSE <<Blank, BigSkip>>
        b == IF argument_like(ln)
             THEN <<"{\\em ">> \o label \o <<"}">>
             ELSE <<"{\\sf ">> \o label \o <<"}">>
    IN  R([st EXCEPT !.verb = TRUE], a \o <<b, BeginVerbatim>>)

on_key(st, ln) ==
    LET key == first_key(ln)
        label == Tail(key)
        a == IF st.verb THEN <<EndVerbatim>> ELSE <<Blank, BigSkip>>
        b == IF argument_like(ln)
             THEN <<"{\\em ">> \o label \o <<"}">>
             ELSE <<"{\\sf ">> \o label \o <<"}">>
    IN  R([st EXCEPT !.verb = TRUE], a \o <<b, BeginVerbatim>>)

\* a prologue-close branch that also leaves code mode
on_eop_leaves_code(st) ==
    IF st.verb
    THEN R([st EXCEPT !.verb = FALSE, !.prologue = FALSE, !.source = FALSE], <<EndVerbatim>>)
    ELSE R([st EXCEPT !.prologue = FALSE, !.source = FALSE], <<>>)

\* a prologue-close branch that prints \end{verbatim} whether or not a listing is open
on_eop_always_ends(st) ==
    R([st EXCEPT !.verb = FALSE, !.prologue = FALSE], <<EndVerbatim>>)

\* a prologue-close branch that leaves the prologue flag set
on_eop_still_open(st) ==
    IF st.verb
    THEN R([st EXCEPT !.verb = FALSE], <<EndVerbatim>>)
    ELSE R(st, <<>>)

on_eop(st) ==
    IF st.verb
    THEN R([st EXCEPT !.verb = FALSE, !.prologue = FALSE], <<EndVerbatim>>)
    ELSE R([st EXCEPT !.prologue = FALSE], <<>>)

\* a code-open branch that opens no second listing when one is open
on_boc_if_closed(st) ==
    R([st EXCEPT !.first = FALSE, !.prologue = FALSE, !.source = TRUE, !.verb = TRUE],
      <<Blank, Separator>> \o (IF st.verb THEN <<>> ELSE <<Blank, BeginVerbatim>>))

\* a code-open branch that leaves the prologue flag as it was
on_boc_in_prologue(st) ==
    R([st EXCEPT !.first = FALSE, !.source = TRUE, !.verb = TRUE],
      <<Blank, Separator, Blank, BeginVerbatim>>)

on_boc(st) ==
    R([st EXCEPT !.first = FALSE, !.prologue = FALSE, !.source = TRUE, !.verb = TRUE],
      <<Blank, Separator, Blank, BeginVerbatim>>)

on_eoc(st) ==
    LET a == do_eoc(st)
    IN  R([a.st EXCEPT !.prologue = FALSE], a.out)

\* an example-open branch that does not close the code block first
on_boe_no_close(st) ==
    R([st EXCEPT !.first = FALSE, !.prologue = TRUE, !.verb = FALSE,
                 !.source = FALSE],
      <<Blank, Separator>>)

on_boe(st) ==
    LET a == IF st.source THEN do_eoc(st) ELSE R(st, <<>>)
    IN  R([a.st EXCEPT !.first = FALSE, !.prologue = TRUE, !.verb = FALSE,
                       !.source = FALSE],
          a.out \o <<Blank, Separator>>)

on_eoe(st) ==
    IF st.verb
    THEN R([st EXCEPT !.verb = FALSE, !.prologue = FALSE], <<EndVerbatim>>)
    ELSE R([st EXCEPT !.prologue = FALSE], <<>>)

on_text(st, ln) ==
    R(st, << IF startswith(ln, tokens.comment)
             THEN from(ln, Len(tokens.comment)) ELSE ln >>)

\* a source fallback that drops the line
on_source_dropped(st, ln) == R(st, <<>>)

on_source(st, ln) == R(st, <<ln>>)

\* the marker index: 1 when the first field is a lone "!", else 0
marker_index(fields) == IF fields # <<>> /\ fields[1] = <<"!">> THEN 1 ELSE 0

intro_marks ==
    {TitleMark, AuthorsMark, AffiliationMark, DateMark, IntroductionMark}

process_line(st, raw, fb) ==
    LET ln == lstrip(raw)
        fields == split(ln)
        mi == marker_index(fields)
    IN  IF Len(fields) <= mi THEN R(st, <<>>)
        ELSE LET m == fields[mi + 1] IN
        IF m = QuoteMark THEN on_quote(st, fields, mi)
        ELSE IF m = tokens.boi THEN on_boi(st)
        ELSE IF st.intro /\ Len(fields) > mi + 1 /\ fields[mi + 2] \in intro_marks
        THEN LET marker == fields[mi + 2] IN
             IF marker = TitleMark THEN on_title(st, fields, mi)
             ELSE IF marker = AuthorsMark THEN on_authors(st, fields, mi)
             ELSE IF marker = AffiliationMark THEN on_affiliation(st, fields, mi)
             ELSE IF marker = DateMark THEN on_date(st, fields, mi)
             ELSE on_introduction(st, fields, mi)
        ELSE IF m = tokens.eoi THEN on_eoi(st)
        ELSE IF m = tokens.bop THEN on_bop(st)
        ELSE IF m = tokens.bopi THEN on_bopi(st)
        ELSE IF st.prologue /\ m = ModuleMark THEN on_module(st, fields, mi, fb)
        ELSE IF st.prologue /\ m = RoutineMark THEN on_routine(st, fields, mi, fb)
        ELSE IF st.prologue /\ m = IRoutineMark THEN on_iroutine(st, fields, mi)
        ELSE IF st.prologue /\ contains(ln, DescriptionMark) THEN on_description(st, ln)
        ELSE IF st.prologue /\ matching_keys(ln) # {} THEN on_key(st, ln)
        ELSE IF m \in {tokens.eop, tokens.eopi} THEN on_eop(st)
        ELSE IF m = tokens.boc THEN on_boc(st)
        ELSE IF m = tokens.eoc THEN on_eoc(st)
        ELSE IF m = tokens.boe THEN on_boe(st)
        ELSE IF m = tokens.eoe THEN on_eoe(st)
        ELSE IF st.prologue \/ st.intro THEN on_text(st, ln)
        ELSE IF st.source THEN on_source(st, ln)
        ELSE R(st, <<>>)

(***************************************************************************)
(* The input: the lines a file may hold.                                   *)
(***************************************************************************)
W(x) == <<x>>

Bang == <<"!">>

RoutineName == <<"my", "_", "func">>

build(fields, gap) ==
    IF fields = <<>> THEN <<>>
    ELSE LET F[i \in 1..Len(fields)] ==
                 IF i = 1 THEN fields[1] ELSE F[i - 1] \o <<gap>> \o fields[i]
         IN  F[Len(fields)]

BlockKinds == {"boi", "eoi", "bop", "eop", "bopi", "eopi", "boc", "eoc", "boe", "eoe"}

MarkerFields(l) == { <<language_tokens(l)[k]>> : k \in BlockKinds }

QuoteFields == { <<QuoteMark, W("a"), W("b")>>, <<Bang, QuoteMark, W("a")>> }

KeyFields ==
    { <<DescriptionMark, W("a")>>, <<Key("INTERFACE")>>,
      <<W("x"), IntroductionMark, W("a")>> }

TextFields(l) == { <<W("echo"), W("hi")>>, << <<comment_of(l), "a">> >>, <<Bang>> }

WideFields == { <<QuoteMark, W("a"), W("b")>> }

LinesOf(l) ==
    { build(fs, " ") :
        fs \in MarkerFields(l) \cup QuoteFields \cup KeyFields \cup TextFields(l) }
    \cup { build(fs, "  ") : fs \in WideFields }

LinesF == LinesOf("F")

LinesA == LinesOf("A")

LinesC == LinesOf("C")

LinesS == LinesOf("S")

Lines == CASE lang = "F" -> LinesF [] lang = "A" -> LinesA
           [] lang = "C" -> LinesC [] lang = "S" -> LinesS

(***************************************************************************)
(* What a line is for the block structure of the input: the block marker   *)
(* at its marker index, or "text".                                         *)
(***************************************************************************)
kind(raw) ==
    LET fields == split(lstrip(raw))
        mi == marker_index(fields)
    IN  IF Len(fields) <= mi THEN "text"
        ELSE IF \E k \in BlockKinds : tokens[k] = fields[mi + 1]
             THEN CHOOSE k \in BlockKinds : tokens[k] = fields[mi + 1]
             ELSE "text"

OpenKinds == {"boi", "bop", "bopi", "boc", "boe"}

CloseKinds == {"eoi", "eop", "eopi", "eoc", "eoe"}

opener(k) ==
    CASE k = "eoi" -> "boi" [] k = "eop" -> "bop" [] k = "eopi" -> "bopi"
      [] k = "eoc" -> "boc" [] k = "eoe" -> "boe"

InitHist == [blk |-> "none", wf |-> TRUE, rout |-> FALSE, plain |-> TRUE]

name_marks == {ModuleMark, RoutineMark, IRoutineMark}

\* the line holds a marker of some sort: a block marker, the quote marker, a
\* name or introduction keyword, the description marker or an optional keyword
has_marker(raw) ==
    LET ln == lstrip(raw)
        fields == split(ln)
    IN  \/ kind(raw) # "text"
        \/ \E i \in 1..Len(fields) :
               fields[i] \in name_marks \cup intro_marks \cup {QuoteMark}
        \/ contains(ln, DescriptionMark)
        \/ matching_keys(ln) # {}

\* the line is handled by the !ROUTINE: branch in state st
routine_read(st, raw) ==
    LET fields == split(lstrip(raw))
        mi == marker_index(fields)
    IN  /\ Len(fields) > mi /\ fields[mi + 1] = RoutineMark
        /\ st.prologue
        /\ ~(st.intro /\ Len(fields) > mi + 1 /\ fields[mi + 2] \in intro_marks)

\* the line is handled by the !MODULE: branch in state st
module_read(st, raw) ==
    LET fields == split(lstrip(raw))
        mi == marker_index(fields)
    IN  /\ Len(fields) > mi /\ fields[mi + 1] = ModuleMark
        /\ st.prologue
        /\ ~(st.intro /\ Len(fields) > mi + 1 /\ fields[mi + 2] \in intro_marks)

\* blk: the block-open marker read last in this file and not closed since;
\* wf: every block so far was opened outside any block and closed by its own marker;
\* rout: a !ROUTINE: line of this file has printed its heading;
\* plain: no line of the run has held a marker.
read_hist(h, st, raw) ==
    LET k == kind(raw)
    IN  [blk |-> IF k \in OpenKinds THEN k
                 ELSE IF k \in CloseKinds /\ h.blk = opener(k) THEN "none"
                 ELSE h.blk,
         wf |-> h.wf /\ (k \in OpenKinds => h.blk = "none")
                     /\ (k \in CloseKinds => h.blk = opener(k)),
         rout |-> h.rout \/ routine_read(st, raw),
         plain |-> h.plain /\ ~has_marker(raw)]

(***************************************************************************)
(* The summary of standard output kept by the model.                       *)
(***************************************************************************)
count(o, l) == Cardinality({i \in 1..Len(o) : o[i] = l})

InitCnt == [bv |-> 0, ev |-> 0, begdoc |-> 0, enddoc |-> 0, banner |-> 0]

counted(c, o) ==
    [bv |-> c.bv + count(o, BeginVerbatim), ev |-> c.ev + count(o, EndVerbatim),
     begdoc |-> c.begdoc + count(o, BeginDocument),
     enddoc |-> c.enddoc + count(o, EndDocument),
     banner |-> c.banner + count(o, Banner)]

verbatim_lines(o) == SelectSeq(o, LAMBDA l : l \in {BeginVerbatim, EndVerbatim})

last_verbatim(lv, o) ==
    LET v == verbatim_lines(o)
    IN  IF v = <<>> THEN lv
        ELSE IF v[Len(v)] = BeginVerbatim THEN "bv" ELSE "ev"

within_bounds(c) == \A k \in DOMAIN c : c[k] <= MaxCount

\* everything a step that prints o changes of the output summary
Printed(o) ==
    /\ out' = o
    /\ \E c \in {counted(cnt, o)} : within_bounds(c) /\ cnt' = c
    /\ lastv' = last_verbatim(lastv, o)

(***************************************************************************)
(* The fixed text printed around the files (its wording is abstracted to   *)
(* one line per block of text).                                            *)
(***************************************************************************)
print_notice == << <<"% **** IMPORTANT NOTICE *****">>, Blank >>

print_preamble == << <<"%------ PREAMBLE ------">>, <<"\\documentclass[11pt]{article}">> >>

print_macros == << Blank, <<"%------ SHORT-HAND MACROS ------">> >>

FileName(i) == IF i % 2 = 1 THEN <<"my", "_", "mod", ".f90">> ELSE <<"-">>

file_basename(i) ==
    escape_underscores(IF FileName(i) # <<"-">> THEN FileName(i)
                       ELSE <<"Standard Input">>)

MarkBoth(fb) == <<"\\markboth{Left}{Source File: ">> \o fb \o <<",  Date: ">>
                    \o <<"now">> \o <<"}">>

(***************************************************************************)
(* The run: main and process_file.                                         *)
(***************************************************************************)
DefaultOptions ==
    [bare |-> FALSE, internal |-> FALSE, n |-> FALSE, s |-> FALSE,
     nolatex |-> FALSE, f |-> FALSE]

\* main up to the creation of the state dict, run with switches o on language l
Start(o, l) ==
    /\ opts = o
    /\ lang = l
    /\ state = InitState
    /\ pc = "main"
    /\ nfile = 0
    /\ act = "init"
    /\ line = <<>>
    /\ out = <<>>
    /\ cnt = InitCnt
    /\ lastv = "none"
    /\ hist = InitHist

\* Fortran runs, with and without -b and -i
Init ==
    \E b \in BOOLEAN, i \in BOOLEAN :
        Start([DefaultOptions EXCEPT !.bare = b, !.internal = i], "F")

\* shell-script runs, with and without shut-up mode
InitShell ==
    \E su \in BOOLEAN : Start([DefaultOptions EXCEPT !.s = su], "S")

Preamble ==
    /\ pc = "main"
    /\ pc' = "idle"
    /\ act' = "preamble"
    /\ Printed(print_notice \o (IF ~opts.bare THEN print_preamble ELSE <<>>)
               \o print_macros)
    /\ UNCHANGED <<opts, lang, state, nfile, line, hist>>

OpenFile ==
    /\ pc = "idle"
    /\ nfile < MaxFiles
    /\ pc' = "reading"
    /\ nfile' = nfile + 1
    /\ act' = "open"
    /\ Printed(<<Blank, MarkBoth(file_basename(nfile + 1)), Blank>>)
    /\ UNCHANGED <<opts, lang, state, line, hist>>

ReadLine(raw) ==
    /\ pc = "reading"
    /\ \E r \in {process_line(state, raw, file_basename(nfile))} :
           /\ state' = r.st
           /\ Printed(r.out)
    /\ act' = "line"
    /\ line' = raw
    /\ hist' = read_hist(hist, state, raw)
    /\ UNCHANGED <<opts, lang, pc, nfile>>

\* an end of file that also leaves the prologue
end_of_file_leaves_prologue(st) ==
    LET a == IF st.source THEN do_eoc(st) ELSE R(st, <<>>)
    IN  R([a.st EXCEPT !.prologue = FALSE], <<Blank>> \o a.out \o <<EofRule>>)

\* an end of file that prints \end{verbatim} whether or not a listing is open
end_of_file_always_closes(st) ==
    R([st EXCEPT !.verb = FALSE, !.source = FALSE], <<Blank, EndVerbatim, EofRule>>)

end_of_file(st) ==
    LET a == IF st.source THEN do_eoc(st) ELSE R(st, <<>>)
    IN  R(a.st, <<Blank>> \o a.out \o <<EofRule>>)

EndOfFile ==
    /\ pc = "reading"
    /\ pc' = "idle"
    /\ \E r \in {end_of_file(state)} :
           /\ state' = r.st
           /\ Printed(r.out)
    /\ act' = "eof"
    /\ hist' = [hist EXCEPT !.blk = "none", !.rout = FALSE]
    /\ UNCHANGED <<opts, lang, nfile, line>>

Finish ==
    /\ pc = "idle"
    /\ nfile >= 1
    /\ pc' = "done"
    /\ act' = "finish"
    /\ Printed(IF ~opts.bare THEN <<EndDocument>> ELSE <<>>)
    /\ UNCHANGED <<opts, lang, state, nfile, line, hist>>

Next ==
    \/ Preamble
    \/ OpenFile
    \/ \E raw \in Lines : ReadLine(raw)
    \/ EndOfFile
    \/ Finish

Spec == Init /\ [][Next]_vars

SpecShell == InitShell /\ [][Next]_vars

(***************************************************************************)
(* Runs over prologues with name markers, with and without the new-page    *)
(* and no-file-info switches.                                              *)
(***************************************************************************)
ModuleName == <<"my", "_", "mod">>

PageLines ==
    { build(fs, " ") :
        fs \in { <<TokensF.bop>>, <<TokensF.eop>>,
                 <<RoutineMark, RoutineName>>, <<Bang, RoutineMark, W("f"), W("g")>>,
                 <<ModuleMark, ModuleName>>, <<IRoutineMark, W("f"), W("g")>>,
                 << <<"!", "a">> >> } }

InitPages ==
    \E n \in BOOLEAN, f \in BOOLEAN :
        Start([DefaultOptions EXCEPT !.n = n, !.f = f], "F")

NextPages ==
    \/ Preamble
    \/ OpenFile
    \/ \E raw \in PageLines : ReadLine(raw)
    \/ EndOfFile
    \/ Finish

SpecPages == InitPages /\ [][NextPages]_vars

(***************************************************************************)
(* Runs over prologues with keyword sections and descriptions, with and    *)
(* without the no-LaTeX switch.                                            *)
(***************************************************************************)
KeyLines ==
    { build(fs, " ") :
        fs \in { <<TokensF.bop>>, <<TokensF.eop>>,
                 <<Key("REMARKS")>>, <<Key("REMARKS"), W("INPUT")>>,
                 <<Bang, Key2("INPUT", "PARAMETERS")>>,
                 <<Key("BUGS"), Key("USES")>>,
                 <<DescriptionMark, W("a")>>, << <<"!", "a">> >> } }

InitKeys ==
    \E b \in BOOLEAN, x \in BOOLEAN :
        Start([DefaultOptions EXCEPT !.bare = b, !.nolatex = x], "F")

NextKeys ==
    \/ Preamble
    \/ OpenFile
    \/ \E raw \in KeyLines : ReadLine(raw)
    \/ EndOfFile
    \/ Finish

SpecKeys == InitKeys /\ [][NextKeys]_vars

(***************************************************************************)
(* Runs over introductions with title-page keywords.                       *)
(***************************************************************************)
IntroLines ==
    { build(fs, " ") :
        fs \in { <<TokensF.boi>>, <<TokensF.eoi>>, <<TokensF.bop>>,
                 <<TitleMark, W("a"), W("b")>>, <<Bang, TitleMark, W("a")>>,
                 <<W("x"), TitleMark, W("a")>>, <<Bang, W("x"), AuthorsMark, W("b")>>,
                 <<AffiliationMark, W("c")>>, <<W("x"), DateMark, W("d")>>,
                 <<W("x"), IntroductionMark, W("a")>> } }

InitIntro == \E b \in BOOLEAN : Start([DefaultOptions EXCEPT !.bare = b], "F")

NextIntro ==
    \/ Preamble
    \/ OpenFile
    \/ \E raw \in IntroLines : ReadLine(raw)
    \/ EndOfFile
    \/ Finish

SpecIntro == InitIntro /\ [][NextIntro]_vars

(***************************************************************************)
(* Runs over prologues and examples with name and description markers,     *)
(* with and without internal mode.                                         *)
(***************************************************************************)
FlagLines ==
    { build(fs, " ") :
        fs \in { <<TokensF.bop>>, <<TokensF.bopi>>, <<TokensF.boe>>, <<TokensF.eop>>,
                 <<RoutineMark, RoutineName>>, <<ModuleMark, ModuleName>>,
                 <<DescriptionMark, W("a")>> } }

InitFlags ==
    \E b \in BOOLEAN, i \in BOOLEAN :
        Start([DefaultOptions EXCEPT !.bare = b, !.internal = i], "F")

NextFlags ==
    \/ Preamble
    \/ OpenFile
    \/ \E raw \in FlagLines : ReadLine(raw)
    \/ EndOfFile
    \/ Finish

SpecFlags == InitFlags /\ [][NextFlags]_vars

(***************************************************************************)
(* Vocabulary of the properties.                                           *)
(***************************************************************************)
Emits(o, l) == \E i \in 1..Len(o) : o[i] = l

Precedes(o, l1, l2) == \E i, j \in 1..Len(o) : i < j /\ o[i] = l1 /\ o[j] = l2

\* a line whose marker starts a prologue: BOP, or BOPI when internal mode is off
StartsPrologue(raw) == kind(raw) = "bop" \/ (kind(raw) = "bopi" /\ ~opts.internal)

\* a line whose marker starts a prologue, a code block or an example
StartsBlock(raw) == StartsPrologue(raw) \/ kind(raw) \in {"boc", "boe"}

\* an "!INTRODUCTION:" keyword in the field after the marker index
IsIntroductionLine(raw) ==
    LET fields == split(lstrip(raw))
        mi == marker_index(fields)
    IN  Len(fields) > mi + 1 /\ fields[mi + 2] = IntroductionMark

\* the steps that call do_beg
CallsDoBeg(st, raw) == StartsPrologue(raw) \/ (st.intro /\ IsIntroductionLine(raw))

\* the line without its leading whitespace and without a leading lone "!"
AfterBang(raw) ==
    LET ln == lstrip(raw)
    IN  IF Len(ln) >= 2 /\ ln[1] = "!" /\ IsSpace(ln[2]) THEN lstrip(Tail(ln)) ELSE ln

IsQuoteLine(raw) ==
    /\ startswith(AfterBang(raw), QuoteMark)
    /\ (Len(AfterBang(raw)) > Len(QuoteMark) => IsSpace(AfterBang(raw)[Len(QuoteMark) + 1]))

\* the text of a quote line that follows the marker and the whitespace after it
RestAfterMarker(raw) == lstrip(from(AfterBang(raw), Len(QuoteMark)))

IsNameHeading(l) ==
    l # <<>> /\ l[1] \in {"\\subsection{Fortran:  Module Interface ", "\\subsubsection{",
                          "\\subsubsection ["}

IsHeading(l) == IsNameHeading(l) \/ l = Banner

\* the title-page keywords and the field of the state each one captures into
capture_marks == {TitleMark, AuthorsMark, AffiliationMark, DateMark}

capture_field(mark) ==
    CASE mark = TitleMark -> "title" [] mark = AuthorsMark -> "author"
      [] mark = AffiliationMark -> "affiliation" [] mark = DateMark -> "doc_date"

\* the position of the first title-page keyword among the fields of the line, or 0
capture_at(raw) ==
    LET fields == split(lstrip(raw))
        at == {i \in 1..Len(fields) : fields[i] \in capture_marks}
    IN  IF at = {} THEN 0 ELSE CHOOSE i \in at : \A j \in at : i <= j

\* a line that holds an optional keyword and no other marker
IsKeywordLine(raw) ==
    /\ matching_keys(lstrip(raw)) # {}
    /\ kind(raw) = "text"
    /\ ~contains(lstrip(raw), DescriptionMark)
    /\ \A i \in 1..Len(split(lstrip(raw))) :
           split(lstrip(raw))[i] \notin name_marks \cup intro_marks \cup {QuoteMark}

IsKeywordLabel(l) == l # <<>> /\ l[1] \in {"{\\em ", "{\\sf "}

(***************************************************************************)
(* C1.  For every well-formed input (each block-open marker matched by its *)
(* close marker, the last block possibly left open at the end of the file) *)
(* the output holds as many \begin{verbatim} as \end{verbatim} lines once  *)
(* end-of-file processing is done.  The code breaks this: a prologue left  *)
(* open with a keyword section keeps its verbatim block open.              *)
(***************************************************************************)
C1_BalancedAtEof == (act = "eof" /\ hist.wf) => cnt.bv = cnt.ev

(***************************************************************************)
(* C2.  End-of-file processing leaves no verbatim block open: when one is  *)
(* open after the last line, \end{verbatim} is printed before the trailing *)
(* separator, and verb is false afterwards.  The code closes the block     *)
(* only in code mode.                                                      *)
(***************************************************************************)
C2_ClosedAtEof ==
    [][act' = "eof" =>
          /\ ~state'.verb
          /\ (state.verb => Precedes(out', EndVerbatim, EofRule))]_vars

(***************************************************************************)
(* C3.  The document header is printed at most once in a run: the first    *)
(* call of do_beg in a non-bare run prints \begin{document} and latches    *)
(* begdoc, which is never reset; every later call prints nothing; a bare   *)
(* run never prints it.                                                    *)
(***************************************************************************)
C3_HeaderOnce ==
    [][/\ cnt'.begdoc <= 1
       /\ (state.begdoc => state'.begdoc /\ ~Emits(out', BeginDocument))
       /\ (opts.bare => cnt'.begdoc = 0 /\ ~state'.begdoc)
       /\ (act' = "line" /\ CallsDoBeg(state, line') /\ ~opts.bare /\ ~state.begdoc
             => Emits(out', BeginDocument) /\ state'.begdoc)
       /\ (Emits(out', BeginDocument)
             => act' = "line" /\ CallsDoBeg(state, line') /\ ~state.begdoc)]_vars

\* a later prologue-open line of a non-bare run has called do_beg and printed no header
C3_Witness ==
    /\ ~opts.bare /\ act = "line" /\ kind(line) = "bop"
    /\ cnt.begdoc = 1 /\ state.begdoc /\ ~Emits(out, BeginDocument)

(***************************************************************************)
(* C4 as stated.  In a non-bare run the first prologue-open line of the    *)
(* run prints the banner, every later one prints the rule, and the banner  *)
(* is printed once: so each line that starts a prologue prints exactly one *)
(* of banner and rule, and the banner has been printed once by then.       *)
(***************************************************************************)
C4_FirstPrologueBanner ==
    (~opts.bare /\ act = "line" /\ StartsPrologue(line))
        => /\ cnt.banner = 1
           /\ Emits(out, Banner) # Emits(out, HRule)

(***************************************************************************)
(* C4 amended.  In a non-bare run a line that starts a prologue prints the *)
(* banner exactly when no line of the run has started a prologue, a code   *)
(* block or an example before it (flag first: true at the start, cleared   *)
(* by each such line and by nothing else, never set again), and the rule   *)
(* otherwise; the banner is printed at most once per run.                  *)
(***************************************************************************)
C4_BannerUnlessStarted ==
    [][/\ (act' = "line" /\ StartsBlock(line') => ~state'.first)
       /\ (state.first /\ ~(act' = "line" /\ StartsBlock(line')) => state'.first)
       /\ (~state.first => ~state'.first)
       /\ (~opts.bare /\ act' = "line" /\ StartsPrologue(line')
             => IF state.first
                THEN Emits(out', Banner) /\ ~Emits(out', HRule)
                ELSE Emits(out', HRule) /\ ~Emits(out', Banner))
       /\ cnt'.banner <= 1]_vars

\* a prologue opened after a code block: the rule, and no banner in the whole run
C4_Witness ==
    /\ ~opts.bare /\ act = "line" /\ kind(line) = "bop"
    /\ Emits(out, HRule) /\ cnt.banner = 0

(***************************************************************************)
(* C5 as stated.  At most one of the introduction, prologue and code flags *)
(* is true in every reachable state.                                       *)
(***************************************************************************)
C5_ModeExclusive ==
    /\ ~(state.intro /\ state.prologue)
    /\ ~(state.intro /\ state.source)
    /\ ~(state.prologue /\ state.source)

(***************************************************************************)
(* C5 amended.  The prologue and code flags are never both true; the       *)
(* introduction flag is independent of them (set by BOI and cleared by EOI *)
(* alone), so it can be true together with either.                         *)
(***************************************************************************)
C5_PrologueCodeExclusive ==
    [][/\ ~(state'.prologue /\ state'.source)
       /\ (state'.intro # state.intro
             => act' = "line" /\ kind(line') = (IF state.intro THEN "eoi" ELSE "boi"))]_vars

\* a prologue opened inside an introduction that was not closed
C5_Witness == state.intro /\ state.prologue /\ act = "line" /\ kind(line) = "bop"

(***************************************************************************)
(* C6 as stated.  A !QUOTE: line prints exactly the remainder of the line  *)
(* after the marker, unchanged, and changes no field of the state.         *)
(***************************************************************************)
C6_QuoteVerbatim ==
    [][act' = "line" /\ IsQuoteLine(line')
          => out' = <<RestAfterMarker(line')>> /\ state' = state]_vars

(***************************************************************************)
(* C6 amended.  A !QUOTE: line, in any state, prints exactly one line: the *)
(* whitespace-separated fields that follow the marker, joined by single    *)
(* blanks (runs of whitespace are not kept); it changes no field of the    *)
(* state.                                                                  *)
(***************************************************************************)
C6_QuoteFields ==
    [][act' = "line" /\ IsQuoteLine(line')
          => out' = <<join(split(RestAfterMarker(line')))>> /\ state' = state]_vars

\* a quote line with a wide gap, read inside a code block
C6_Witness ==
    /\ act = "line" /\ line = <<"!", "QUOTE", ":", "  ", "a", "  ", "b">>
    /\ out = << <<"a", " ", "b">> >>
    /\ state.source /\ state.verb

InCode == [InitState EXCEPT !.first = FALSE, !.source = TRUE, !.verb = TRUE]

AfterCode == [InitState EXCEPT !.first = FALSE]

EchoHi == <<"echo", " ", "hi">>

C8_ShellListing ==
    [][(lang = "S" /\ act' = "line")
          => /\ (state = InitState /\ line' = <<"#", "BOC">>
                   => out' = <<Blank, Separator, Blank, BeginVerbatim>> /\ state' = InCode)
             /\ (state = InCode /\ line' = EchoHi
                   => out' = <<EchoHi>> /\ state' = InCode)
             /\ (state = InCode /\ line' = <<"#", "EOC">>
                   => out' = <<EndVerbatim>> /\ state' = AfterCode
                      /\ ~state'.source /\ ~state'.verb)]_vars

\* the close of the listing in the first file of a shell run
C8_Witness ==
    /\ lang = "S" /\ act = "line" /\ line = <<"#", "EOC">> /\ out = <<EndVerbatim>>
    /\ state = AfterCode /\ cnt.bv = 1 /\ cnt.ev = 1 /\ nfile = 1 /\ hist.wf

(***************************************************************************)
(* C9.  With shut-up mode on, no input line between a code-open marker and *)
(* the code-close marker that follows is printed.  The code never reads    *)
(* the switch.                                                             *)
(***************************************************************************)
C9_ShutUp ==
    (opts.s /\ act = "line" /\ hist.blk = "boc" /\ kind(line) = "text")
        => ~Emits(out, lstrip(line))

(***************************************************************************)
(* C10.  With internal mode on, nothing is printed from an internal-       *)
(* prologue-open line up to and including its close line, whatever the     *)
(* state in which the open line is read.  Stated here for the lines of a   *)
(* well-formed input, quote lines left aside: the open line, the lines     *)
(* that hold no block marker and the close line.  The open line only       *)
(* clears the prologue flag: the text of the internal prologue is printed  *)
(* when an introduction is open, and its close line prints \end{verbatim}  *)
(* when a keyword section is.                                              *)
(***************************************************************************)
C10_InternalSuppressed ==
    [][(/\ opts.internal /\ act' = "line" /\ hist.wf
        /\ \/ (kind(line') = "bopi" /\ hist.blk = "none")
           \/ (hist.blk = "bopi" /\ kind(line') = "text" /\ ~IsQuoteLine(line'))
           \/ (hist.blk = "bopi" /\ kind(line') = "eopi"))
          => out' = <<>>]_vars

(***************************************************************************)
(* C11.  With internal mode off, a BOPI line read in any state prints the  *)
(* lines and leaves the state that a BOP line read in the same state would *)
(* (the two branches of the loop are separate copies of the same code).    *)
(***************************************************************************)
C11_BopiAsBop ==
    [][(~opts.internal /\ act' = "line" /\ kind(line') = "bopi")
          => \E r \in {process_line(state, tokens.bop, file_basename(nfile))} :
                 out' = r.out /\ state' = r.st]_vars

\* an internal prologue opened inside a listing, after a description was read
C11_Witness ==
    /\ ~opts.internal /\ ~opts.bare /\ act = "line" /\ kind(line) = "bopi"
    /\ out = <<EndVerbatim, Blank, Separator, Blank, HRule>>
    /\ state.prologue /\ ~state.have_desc /\ cnt.bv = 2

(***************************************************************************)
(* C12 as stated.  With the new-page switch on, a !ROUTINE: line handled   *)
(* in a prologue prints \newpage exactly when an earlier !ROUTINE: line of *)
(* the same file was handled: the first routine of each file prints none,  *)
(* every later one prints one.                                             *)
(***************************************************************************)
C12_FirstRoutineOfFile ==
    [][(opts.n /\ act' = "line" /\ routine_read(state, line'))
          => (Emits(out', NewPage) <=> hist.rout)]_vars

(***************************************************************************)
(* C12 amended.  A !ROUTINE: line handled in a prologue prints \newpage    *)
(* exactly when the new-page switch is on and a !MODULE: or !ROUTINE:      *)
(* heading was printed earlier in the run, in this file or in an earlier   *)
(* one (flag not_first: false at the start, set by these two branches and  *)
(* by nothing else, never cleared, not even between files).                *)
(***************************************************************************)
C12_BreakAfterFirstHeading ==
    [][/\ (act' = "line" /\ routine_read(state, line')
             => /\ Emits(out', NewPage) <=> (opts.n /\ state.not_first)
                /\ state'.not_first)
       /\ (act' = "line" /\ module_read(state, line') => state'.not_first)
       /\ (state.not_first => state'.not_first)
       /\ (state'.not_first /\ ~state.not_first
             => act' = "line"
                /\ (routine_read(state, line') \/ module_read(state, line')))]_vars

\* the first routine of the second file, after a routine of the first file: a page break
C12_Witness ==
    /\ opts.n /\ opts.f /\ act = "line" /\ nfile = 2 /\ cnt.begdoc = 1
    /\ line = <<"!", "ROUTINE", ":", " ", "my", "_", "func">>
    /\ out = <<NewPage, <<"\\subsubsection{", "my", "\\_", "func", "}">>, Blank>>

(***************************************************************************)
(* C13.  While no line of the run has held a marker, the output is the     *)
(* fixed notice, preamble and macro text and the per-file banner (taken    *)
(* here with the trailer that ends each file) and nothing else: no line    *)
(* step and no other step prints anything, and the state stays the initial *)
(* one.  The code prints \end{document} at the end of a non-bare run even  *)
(* though no document was begun.                                           *)
(***************************************************************************)
C13_OnlyFixedText ==
    [][hist'.plain
          => /\ state' = InitState
             /\ (act' = "preamble"
                   => out' = print_notice
                             \o (IF ~opts.bare THEN print_preamble ELSE <<>>)
                             \o print_macros)
             /\ (act' = "open" => out' = <<Blank, MarkBoth(file_basename(nfile')), Blank>>)
             /\ (act' = "eof" => out' = <<Blank, EofRule>>)
             /\ (act' \in {"line", "finish"} => out' = <<>>)]_vars

(***************************************************************************)
(* What the code does on such input (C13, C22).  While no line of the run  *)
(* has held a marker, every input line is dropped and the state stays the  *)
(* initial one; the output is the fixed notice, preamble and macro text,   *)
(* for each file its banner and its end-of-file trailer, and, in a         *)
(* non-bare run, an \end{document} that closes a document never begun.     *)
(***************************************************************************)
C13_PlainInput ==
    [][hist'.plain
          => /\ state' = InitState
             /\ (act' = "preamble"
                   => out' = print_notice
                             \o (IF ~opts.bare THEN print_preamble ELSE <<>>)
                             \o print_macros)
             /\ (act' = "open" => out' = <<Blank, MarkBoth(file_basename(nfile')), Blank>>)
             /\ (act' = "eof" => out' = <<Blank, EofRule>>)
             /\ (act' = "line" => out' = <<>>)
             /\ (act' = "finish"
                   => out' = (IF ~opts.bare THEN <<EndDocument>> ELSE <<>>)
                      /\ cnt'.begdoc = 0)]_vars

\* the end of a non-bare run over two files whose lines held no marker
C13_Witness ==
    /\ hist.plain /\ pc = "done" /\ act = "finish" /\ nfile = 2 /\ ~opts.bare
    /\ line = EchoHi /\ out = <<EndDocument>> /\ state = InitState

(***************************************************************************)
(* C14.  At every point of a run the output holds no more \end{verbatim}   *)
(* than \begin{verbatim} lines, and each \end{verbatim} printed follows a  *)
(* \begin{verbatim} with no other \end{verbatim} between the two.          *)
(***************************************************************************)
C14_NoCloseWithoutOpen ==
    [][/\ cnt'.ev <= cnt'.bv
       /\ \E v \in {verbatim_lines(out')} :
              \A i \in 1..Len(v) :
                  v[i] = EndVerbatim
                      => IF i = 1 THEN lastv = "bv" ELSE v[i - 1] = BeginVerbatim]_vars

\* the close of a second listing of the run
C14_Witness ==
    /\ act = "line" /\ kind(line) = "eop" /\ out = <<EndVerbatim>>
    /\ cnt.bv = 2 /\ cnt.ev = 2 /\ lastv = "ev"

(***************************************************************************)
(* C15 as stated.  In every reachable state the code flag implies verb.    *)
(***************************************************************************)
C15_CodeInVerbatim == state.source => state.verb

(***************************************************************************)
(* C15 amended.  While the input is well-formed (each block opened outside *)
(* any other block and closed by its own marker) the code flag implies     *)
(* verb, and the verbatim command printed last is \begin{verbatim}, so the *)
(* lines printed by the code fallback lie inside a listing.  A prologue-   *)
(* close or example-close line read in code mode closes the listing and    *)
(* leaves the code flag set, so that the code fallback then prints outside *)
(* any listing; no other step clears verb and leaves the code flag set.    *)
(***************************************************************************)
C15_CodeInVerbatimWellFormed ==
    [][/\ (hist'.wf /\ state'.source => state'.verb /\ lastv' = "bv")
       /\ (state.source /\ state.verb /\ act' = "line"
              /\ kind(line') \in {"eop", "eopi", "eoe"}
             => state'.source /\ ~state'.verb /\ out' = <<EndVerbatim>>)
       /\ (state.source /\ state.verb /\ state'.source /\ ~state'.verb
             => act' = "line" /\ kind(line') \in {"eop", "eopi", "eoe"})]_vars

\* a source line printed inside the listing of a well-formed code block
C15_Witness ==
    /\ hist.wf /\ hist.blk = "boc" /\ state.source /\ state.verb /\ lastv = "bv"
    /\ act = "line" /\ line = EchoHi /\ out = <<EchoHi>>

(***************************************************************************)
(* C16.  A code-open line, in any state, prints the separator and then     *)
(* \begin{verbatim}, also when a listing is open already; afterwards the   *)
(* prologue flag is false and the code flag and verb are true.             *)
(***************************************************************************)
C16_CodeOpen ==
    [][(act' = "line" /\ kind(line') = "boc")
          => /\ out' = <<Blank, Separator, Blank, BeginVerbatim>>
             /\ cnt'.bv = cnt.bv + 1 /\ cnt'.ev = cnt.ev
             /\ ~state'.prologue /\ state'.source /\ state'.verb]_vars

\* a code block opened while a listing was open: two opens, no close
C16_Witness ==
    /\ act = "line" /\ kind(line) = "boc" /\ cnt.bv = 2 /\ cnt.ev = 0
    /\ out = <<Blank, Separator, Blank, BeginVerbatim>>
    /\ state.source /\ state.verb /\ ~state.prologue

(***************************************************************************)
(* C17.  A prologue-open line (BOP, or BOPI with internal mode off) or an  *)
(* example-open line read in code mode closes the code block first: the    *)
(* \end{verbatim} of the listing, when one is open, is the first line      *)
(* printed, before the separator of the new block, and is the only one;    *)
(* afterwards the code flag and verb are false and the prologue flag is    *)
(* true.                                                                   *)
(***************************************************************************)
C17_ClosesCodeFirst ==
    [][(state.source /\ act' = "line"
          /\ (StartsPrologue(line') \/ kind(line') = "boe"))
          => /\ (state.verb
                   => /\ out'[1] = EndVerbatim
                      /\ SubSeq(out', 2, 3) = <<Blank, Separator>>
                      /\ cnt'.ev = cnt.ev + 1)
             /\ (~state.verb => SubSeq(out', 1, 2) = <<Blank, Separator>>
                                /\ cnt'.ev = cnt.ev)
             /\ ~state'.source /\ state'.prologue /\ ~state'.verb]_vars

\* an example opened inside a code block
C17_Witness ==
    /\ act = "line" /\ kind(line) = "boe" /\ out = <<EndVerbatim, Blank, Separator>>
    /\ state.prologue /\ ~state.source /\ ~state.verb /\ cnt.bv = 1 /\ cnt.ev = 1

(***************************************************************************)
(* C18.  A line that holds an optional keyword and no other marker takes   *)
(* effect only with the prologue flag set: there it prints \end{verbatim}  *)
(* when a listing is open and the spacing command when none is, then the   *)
(* label of the keyword, then \begin{verbatim}, and leaves verb and the    *)
(* prologue flag true; with the prologue flag clear it prints no label, no *)
(* spacing and no verbatim command and leaves verb as it was.              *)
(***************************************************************************)
C18_KeywordOnlyInPrologue ==
    [][(act' = "line" /\ IsKeywordLine(line'))
          => IF state.prologue
             THEN /\ Len(out') = (IF state.verb THEN 3 ELSE 4)
                  /\ SubSeq(out', 1, Len(out') - 2)
                         = (IF state.verb THEN <<EndVerbatim>> ELSE <<Blank, BigSkip>>)
                  /\ IsKeywordLabel(out'[Len(out') - 1])
                  /\ out'[Len(out')] = BeginVerbatim
                  /\ state'.verb /\ state'.prologue
             ELSE /\ state'.verb = state.verb
                  /\ \A i \in 1..Len(out') :
                         /\ ~IsKeywordLabel(out'[i])
                         /\ out'[i] \notin {BeginVerbatim, EndVerbatim, BigSkip}]_vars

\* a second keyword section of a prologue: the first listing closed, a new one opened
C18_Witness ==
    /\ act = "line" /\ IsKeywordLine(line) /\ state.prologue /\ state.verb
    /\ out = <<EndVerbatim, <<"{\\sf ", "INTERFACE", ":", "}">>, BeginVerbatim>>
    /\ cnt.bv = 2 /\ cnt.ev = 1

(***************************************************************************)
(* C19.  A keyword line of a prologue prints the label of the first        *)
(* keyword of the list that the line contains, in the style that this      *)
(* keyword's own text decides: the argument style when the keyword holds   *)
(* one of the argument words, the general style otherwise.  The code tests *)
(* the whole line for the argument words, so text after the keyword        *)
(* changes the style.                                                      *)
(***************************************************************************)
C19_StyleFromKeyword ==
    [][(act' = "line" /\ IsKeywordLine(line') /\ state.prologue)
          => \E key \in {first_key(lstrip(line'))} :
                 out'[Len(out') - 1]
                     = (IF \E x \in argument_words : contains(key, <<x>>)
                        THEN <<"{\\em ">> \o Tail(key) \o <<"}">>
                        ELSE <<"{\\sf ">> \o Tail(key) \o <<"}">>)]_vars

(***************************************************************************)
(* C20.  In an introduction, a line that carries !TITLE:, !AUTHORS:,       *)
(* !AFFILIATION: or !DATE: stores what follows the keyword on the line     *)
(* (without the keyword) in the matching string of the state, sets tpage   *)
(* and prints nothing; outside an introduction such a line changes none of *)
(* the four strings and leaves tpage alone.  The code looks for the        *)
(* keyword one field too far to the right: the usual line is not captured  *)
(* and is printed as text, and a line with a word before the keyword       *)
(* stores the keyword too.                                                 *)
(***************************************************************************)
C20_TitlePageCapture ==
    [][(act' = "line" /\ capture_at(line') > 0)
          => \E fields \in {split(lstrip(line'))}, k \in {capture_at(line')} :
                 IF state.intro
                 THEN /\ state'[capture_field(fields[k])] = join(from(fields, k))
                      /\ state'.tpage
                      /\ out' = <<>>
                 ELSE /\ state'.title = state.title /\ state'.author = state.author
                      /\ state'.affiliation = state.affiliation
                      /\ state'.doc_date = state.doc_date
                      /\ state'.tpage = state.tpage]_vars

(***************************************************************************)
(* C21.  A line that starts a prologue (BOP, or BOPI with internal mode    *)
(* off) clears the four completeness flags have_name, have_desc,           *)
(* have_intf and have_hist and resets name_is; an example-open line sets   *)
(* the prologue flag and leaves the four flags and name_is as they were.   *)
(***************************************************************************)
C21_ResetAtPrologueOpen ==
    [][/\ (act' = "line" /\ StartsPrologue(line')
             => /\ ~state'.have_name /\ ~state'.have_desc
                /\ ~state'.have_intf /\ ~state'.have_hist
                /\ state'.name_is = Unknown
                /\ state'.prologue)
       /\ (act' = "line" /\ kind(line') = "boe"
             => /\ state'.have_name = state.have_name
                /\ state'.have_desc = state.have_desc
                /\ state'.have_intf = state.have_intf
                /\ state'.have_hist = state.have_hist
                /\ state'.name_is = state.name_is
                /\ state'.prologue)]_vars

\* an example opened after a module prologue with a description: the flags are kept
C21_Witness ==
    /\ act = "line" /\ kind(line) = "boe" /\ state.prologue
    /\ state.have_name /\ state.have_desc /\ state.have_intf

(***************************************************************************)
(* C22.  In a non-bare run the closing \end{document} is printed only      *)
(* after a \begin{document}: once the run has finished, the output holds   *)
(* exactly one \begin{document}.  The code prints the header only at a     *)
(* prologue-open line or an introduction section, and prints the closing   *)
(* line whenever bare mode is off.                                         *)
(***************************************************************************)
C22_DocumentBegunBeforeEnd ==
    (~opts.bare /\ cnt.enddoc >= 1) => cnt.begdoc = 1

(***************************************************************************)
(* C23.  The end of a file changes no field of the state but source and    *)
(* verb (and these only in code mode), and opening the next file changes   *)
(* none: intro, prologue, first, begdoc, not_first and the title-page      *)
(* strings are what they were when the first line of the next file is      *)
(* read.                                                                   *)
(***************************************************************************)
C23_EndOfFileFrame ==
    [][/\ (act' = "eof"
             => /\ [state' EXCEPT !.source = state.source, !.verb = state.verb] = state
                /\ (~state.source => state' = state)
                /\ ~state'.source)
       /\ (act' = "open" => state' = state)]_vars

\* the second file opened inside an introduction and a prologue left open by the first
C23_Witness ==
    /\ act = "open" /\ nfile = 2 /\ state.intro /\ state.prologue /\ state.verb
    /\ ~state.first /\ state.have_desc

====
